---- MODULE Spec2Model ----
(***************************************************************************)
(* Model of the two batch drivers of lego-openscad:                        *)
(*   batch_generate.py  - parameter table and the per-radius driver        *)
(*   generate_stls.py   - the per-configuration driver and the job invoker *)
(* Texts are modelled as strings (built with \o) and, where the program    *)
(* parses them again (argv tokens), as sequences of one-character strings. *)
(* A Python float is a record [t |-> "float", v |-> hundredths]; a Python  *)
(* int used as an angle is [t |-> "int", v |-> value].                     *)
(***************************************************************************)
EXTENDS Integers, Sequences, FiniteSets, TLC

(***************************************************************************)
(* Bounds of the model.                                                    *)
(***************************************************************************)
\* Jobs of one run that may leave the quick-success path (slow, nonzero
\* exit, timeout, exception).
MaxFaults == 2
\* Longest -r list of a direct generate_stls.py run.
MaxRadiusArgs == 2
\* Largest radius handed to the table functions in TableSpec.
MaxProbeRadius == 128

(***************************************************************************)
(* Python values and conversions.                                          *)
(***************************************************************************)
\* An optional value is << >> (None) or <<x>>.
None == << >>

Some(x) == <<x>>

Digits == <<"0", "1", "2", "3", "4", "5", "6", "7", "8", "9">>

DigitVal(c) == CHOOSE d \in 0..9 : Digits[d + 1] = c

PyInt(n) == [t |-> "int", v |-> n]

PyFloat(h) == [t |-> "float", v |-> h]

\* The numeric value of a Python number, in hundredths.
Hundredths(x) == IF x.t = "int" THEN x.v * 100 ELSE x.v

\* The recursive helpers are functions: a function is applied to the value
\* of its argument.
str_digits[n \in Nat] ==
    IF n < 10 THEN <<Digits[n + 1]>>
    ELSE str_digits[n \div 10] \o <<Digits[(n % 10) + 1]>>

\* str(n) / f"{n}" of an int n.
str_int(n) == IF n < 0 THEN <<"-">> \o str_digits[-n] ELSE str_digits[n]

\* repr of a non-negative float with at most two decimals (shortest repr).
repr_float(h) ==
    LET ip == h \div 100
        f  == h % 100
    IN  str_int(ip) \o <<".">> \o
        (IF f % 10 = 0 THEN <<Digits[(f \div 10) + 1]>>
         ELSE <<Digits[(f \div 10) + 1], Digits[(f % 10) + 1]>>)

\* str(x) of an int or float.
str(x) == IF x.t = "int" THEN str_int(x.v) ELSE repr_float(x.v)

\* format(x, ".2f") of an int or float.
format_2f(x) ==
    LET h == Hundredths(x)
    IN  str_int(h \div 100) \o <<".">> \o
        <<Digits[((h % 100) \div 10) + 1], Digits[(h % 10) + 1]>>

digits_value[s \in Seq(STRING)] ==
    IF Len(s) = 0 THEN 0
    ELSE digits_value[SubSeq(s, 1, Len(s) - 1)] * 10 + DigitVal(s[Len(s)])

int_digits(s) == digits_value[s]

\* int(token): argparse type=int.
parse_int(s) ==
    IF s[1] = "-" THEN -int_digits(Tail(s)) ELSE int_digits(s)

\* float(token): argparse type=float (tokens with at most two decimals).
parse_float(s) ==
    LET dots == {i \in 1..Len(s) : s[i] = "."}
    IN  IF dots = {} THEN PyFloat(int_digits(s) * 100)
        ELSE LET p  == CHOOSE i \in dots : TRUE
                 ip == int_digits(SubSeq(s, 1, p - 1))
                 fr == SubSeq(s, p + 1, Len(s))
             IN  PyFloat(ip * 100 +
                         (IF Len(fr) = 1 THEN int_digits(fr) * 10
                          ELSE int_digits(fr)))

concat[cs \in Seq(STRING)] ==
    IF Len(cs) = 0 THEN "" ELSE Head(cs) \o concat[Tail(cs)]

\* A sequence of characters as one string.
Join(cs) == concat[cs]

\* f"{x:<w}": pad on the right with spaces to width w.
ljust(cs, w) == cs \o [k \in 1..(w - Len(cs)) |-> " "]

Min(x, y) == IF x <= y THEN x ELSE y

\* int(x) of a float given in ten-thousandths: truncation toward zero.
int_trunc(x) == IF x >= 0 THEN x \div 10000 ELSE -((-x) \div 10000)

(***************************************************************************)
(* print on a stdout of a given encoding.                                  *)
(***************************************************************************)
\* Code points of the characters the scripts print that are not ASCII: the
\* degree sign, the multiplication sign, the check mark and the ballot x.
DEGREE_SIGN == 176

MULTIPLICATION_SIGN == 215

CHECK_MARK == 10003

BALLOT_X == 10007

StdoutEncodings == {"utf-8", "latin-1", "ascii"}

\* Whether sys.stdout (errors="strict") can encode the character; print
\* raises UnicodeEncodeError when it cannot.
can_encode(encoding, ch) ==
    IF encoding = "utf-8" THEN TRUE
    ELSE IF encoding = "latin-1" THEN ch < 256
    ELSE ch < 128

(***************************************************************************)
(* batch_generate.py: the parameter table.                                 *)
(***************************************************************************)
RADII == <<24, 32, 40, 48, 56, 64, 72, 80, 88, 96, 104, 112, 120>>

\* ANGLE_MAP with the entry of the largest radius left out.
ANGLE_MAP_without_120 ==
    (24 :> PyFloat(2250)) @@ (32 :> PyFloat(2250)) @@
    (40 :> PyInt(18)) @@ (48 :> PyInt(18)) @@ (56 :> PyInt(18)) @@
    (64 :> PyInt(15)) @@ (72 :> PyInt(15)) @@ (80 :> PyInt(15)) @@
    (88 :> PyInt(15)) @@
    (96 :> PyFloat(1125)) @@ (104 :> PyFloat(1125)) @@ (112 :> PyFloat(1125))

ANGLE_MAP ==
    (24 :> PyFloat(2250)) @@ (32 :> PyFloat(2250)) @@
    (40 :> PyInt(18)) @@ (48 :> PyInt(18)) @@ (56 :> PyInt(18)) @@
    (64 :> PyInt(15)) @@ (72 :> PyInt(15)) @@ (80 :> PyInt(15)) @@
    (88 :> PyInt(15)) @@
    (96 :> PyFloat(1125)) @@ (104 :> PyFloat(1125)) @@
    (112 :> PyFloat(1125)) @@ (120 :> PyFloat(1125))

\* calculate_diverse with the coefficient 0.8 in place of 0.8125.
calculate_diverse_coefficient(radius) ==
    LET diverse == 8000 * (radius - 64) * (radius - 64) + 500 * 10000
    IN  Min(int_trunc(diverse), 1800)

\* calculate_diverse without the clamp at the maximum.
calculate_diverse_unclamped(radius) ==
    int_trunc(8125 * (radius - 64) * (radius - 64) + 500 * 10000)

\* a = 0.8125 is held in ten-thousandths; the product and sum are exact in
\* binary floating point for every radius of the model.
calculate_diverse(radius) ==
    LET a       == 8125
        vertex  == 64
        minimum == 500
        maximum == 1800
        diverse == a * (radius - vertex) * (radius - vertex) + minimum * 10000
    IN  Min(int_trunc(diverse), maximum)

RadiiSet == {RADII[i] : i \in 1..Len(RADII)}

DIVERSE_MAP == [radius \in RadiiSet |-> calculate_diverse(radius)]

\* Line 61-67 of run_generator: the argv of the child, every token a
\* sequence of characters.
run_generator_cmd(radius, angle, diverse, output_dir, verbose) ==
    <<  <<"p", "y", "t", "h", "o", "n", "3">>,
        <<"g", "e", "n", "e", "r", "a", "t", "e", "_", "s", "t", "l", "s", ".", "p", "y">>,
        <<"-", "r">>, str_int(radius),
        <<"-", "a">>, str(angle),
        <<"-", "d">>, str_int(diverse) >>
    \o (IF output_dir /= None THEN << <<"-", "o">>, output_dir[1] >> ELSE << >>)
    \o (IF verbose THEN << <<"-", "v">> >> ELSE << >>)

\* Lines 79-102 of run_generator: what the call ends in for what
\* subprocess.run ended in. Without -v each branch prints a mark first. A
\* print that raises inside the try (lines 88, 91) is caught by the handler
\* of line 98, whose own print (line 100) can raise again; a print that
\* raises inside a handler (lines 96, 100) leaves run_generator as
\* UnicodeEncodeError.
run_generator(outcome, verbose, encoding) ==
    LET prints(ch) == verbose \/ can_encode(encoding, ch)
        handler == IF prints(BALLOT_X) THEN "False" ELSE "UnicodeEncodeError"
    IN  IF outcome.kind = "timeout"
        THEN IF prints(BALLOT_X) THEN "False" ELSE "UnicodeEncodeError"
        ELSE IF outcome.kind = "exception" THEN handler
        ELSE IF outcome.returncode = 0
        THEN IF prints(CHECK_MARK) THEN "True" ELSE handler
        ELSE IF prints(BALLOT_X) THEN "False" ELSE handler

\* One row of the dry-run table (line 147).
dry_run_row(radius, angle, diverse) ==
    "R" \o Join(ljust(str_int(radius), 9)) \o " " \o
    Join(ljust(format_2f(angle), 10)) \o " " \o
    Join(ljust(str_int(diverse), 10)) \o " " \o
    "ballast_and_buddy, ballast, track_ballast_and_buddy, track_and_ballast"

(***************************************************************************)
(* generate_stls.py: configurations, parameters, one job.                  *)
(***************************************************************************)
\* CONFIGURATIONS.keys(), in insertion order.
CONFIG_KEYS ==
    <<"ballast_and_buddy", "ballast", "track_ballast_and_buddy", "track_and_ballast">>

CONFIGURATIONS ==
    ("ballast_and_buddy" :>
        [generate_track |-> "false", generate_ballast |-> "true",
         generate_ballast_buddy |-> "true"]) @@
    ("ballast" :>
        [generate_track |-> "false", generate_ballast |-> "true",
         generate_ballast_buddy |-> "false"]) @@
    ("track_ballast_and_buddy" :>
        [generate_track |-> "true", generate_ballast |-> "true",
         generate_ballast_buddy |-> "true"]) @@
    ("track_and_ballast" :>
        [generate_track |-> "true", generate_ballast |-> "true",
         generate_ballast_buddy |-> "false"])

\* The list param_list of generate_scad_params (lines 57-67).
scad_param_list(radius, angle, config, diverse) ==
    LET params == CONFIGURATIONS[config]
    IN  << "-D 'Radius=" \o Join(str_int(radius)) \o "'",
           "-D 'SegAng=" \o Join(str(angle)) \o "'",
           "-D 'generate_track=" \o params.generate_track \o "'",
           "-D 'generate_ballast=" \o params.generate_ballast \o "'",
           "-D 'generate_ballast_buddy=" \o params.generate_ballast_buddy \o "'" >>
        \o (IF diverse /= None
            THEN << "-D 'diverse=" \o Join(str_int(diverse[1])) \o "'" >>
            ELSE << >>)

spaced[l \in Seq(STRING)] ==
    IF Len(l) = 0 THEN ""
    ELSE IF Len(l) = 1 THEN l[1]
    ELSE l[1] \o " " \o spaced[Tail(l)]

\* " ".join(list)
join_space(l) == spaced[l]

\* "ValueError" for a configuration CONFIGURATIONS does not hold.
generate_scad_params(radius, angle, config, diverse) ==
    IF config \notin DOMAIN CONFIGURATIONS THEN "ValueError"
    ELSE join_space(scad_param_list(radius, angle, config, diverse))

\* output_path with the configuration left out of the file name.
output_path_without_config(output_dir, radius, config) ==
    output_dir \o "/" \o "r" \o Join(str_int(radius)) \o ".stl"

\* f"r{radius}_{config}.stl" under output_dir.
output_path(output_dir, radius, config) ==
    output_dir \o "/" \o "r" \o Join(str_int(radius)) \o "_" \o config \o ".stl"

\* Line 86 of generate_stl: the shell command of one job. main only passes
\* keys of CONFIGURATIONS (the choices of -c, the loop of line 134).
generate_stl_cmd(scad_file, output_file, radius, angle, config, diverse) ==
    "openscad " \o generate_scad_params(radius, angle, config, diverse) \o
    " -o '" \o output_file \o "' '" \o scad_file \o "'"

\* Lines 92-116 of generate_stl: the result for what subprocess.run ended in.
\* With -v the success message of line 107 is printed inside the try: when
\* stdout cannot encode its check mark the print raises, the handler of line
\* 114 catches it and the job with exit code 0 returns False.
generate_stl(outcome, verbose, encoding) ==
    IF outcome.kind = "timeout" THEN FALSE
    ELSE IF outcome.kind = "exception" THEN FALSE
    ELSE IF outcome.returncode /= 0 THEN FALSE
    ELSE IF verbose /\ ~can_encode(encoding, CHECK_MARK) THEN FALSE
    ELSE TRUE

\* Defaults of the argument parser of generate_stls.py (lines 166-206), for
\* a script that lies in /work and is run there: Path.cwd() is /work, and
\* Path(__file__).parent / "curves.scad" is the absolute /work/curves.scad
\* (__file__ of the main script is an absolute path).
default_args ==
    [radius |-> << >>, angle |-> PyFloat(2250), config |-> None,
     output_dir |-> "/work", scad_file |-> "/work/curves.scad",
     diverse |-> None, verbose |-> FALSE]

\* The values of a nargs="+" option: the tokens from i up to the next option.
RECURSIVE option_values(_, _)
option_values(argv, i) ==
    IF i > Len(argv) \/ argv[i][1] = "-" THEN << >>
    ELSE <<argv[i]>> \o option_values(argv, i + 1)

RECURSIVE parse_options(_, _, _)
parse_options(argv, i, acc) ==
    IF i > Len(argv) THEN acc
    ELSE IF argv[i] = <<"-", "v">>
         THEN parse_options(argv, i + 1, [acc EXCEPT !.verbose = TRUE])
    ELSE IF argv[i] = <<"-", "r">>
         THEN LET vals == option_values(argv, i + 1)
              IN  parse_options(argv, i + 1 + Len(vals),
                      [acc EXCEPT !.radius =
                          [k \in 1..Len(vals) |-> parse_int(vals[k])]])
    ELSE IF argv[i] = <<"-", "a">>
         THEN parse_options(argv, i + 2,
                  [acc EXCEPT !.angle = parse_float(argv[i + 1])])
    ELSE IF argv[i] = <<"-", "d">>
         THEN parse_options(argv, i + 2,
                  [acc EXCEPT !.diverse = Some(parse_int(argv[i + 1]))])
    ELSE IF argv[i] = <<"-", "o">>
         THEN parse_options(argv, i + 2,
                  [acc EXCEPT !.output_dir = Join(argv[i + 1])])
    ELSE acc

\* parser.parse_args() of generate_stls.py on the argv run_generator builds
\* (argv[1] is the interpreter, argv[2] the script).
parse_args(argv) == parse_options(argv, 3, default_args)

(***************************************************************************)
(* The environment: what one external-tool invocation can end in.          *)
(***************************************************************************)
\* timeout=300 of generate_stl and timeout=600 of run_generator, in seconds.
JobTimeout == 300

RadiusTimeout == 600

\* A job ends with exit code 0 after a short or a long time or with exit
\* code 1, hits the job timeout, or subprocess.run raises something else.
JobOutcomes ==
    {[kind |-> "exit", returncode |-> 0, secs |-> d] : d \in {0, 250}}
    \cup {[kind |-> "exit", returncode |-> 1, secs |-> 0]}
    \cup {[kind |-> "timeout", returncode |-> -1, secs |-> JobTimeout]}
    \cup {[kind |-> "exception", returncode |-> -1, secs |-> 0]}

NoOutcome == [kind |-> "none", returncode |-> -1, secs |-> 0]

IsFault(o) == ~(o.kind = "exit" /\ o.returncode = 0 /\ o.secs = 0)

Succeeded(o) == o.kind = "exit" /\ o.returncode = 0

(***************************************************************************)
(* State.                                                                  *)
(***************************************************************************)
VARIABLES
    driver,            \* the script the user started
    env,               \* scene file present, which runnable, tool on the
                       \* path, output directory creatable, child launch,
                       \* encoding of stdout
    \* batch_generate.py main
    bargs,             \* parsed arguments
    bpc,               \* position in main
    ri,                \* index into RADII of the loop
    success_count,
    failed_radii,
    rows,              \* lines of the dry-run table printed
    report,            \* the summary printed
    bexit,             \* exit status of the process
    cmd,               \* argv of the child started last
    elapsed,           \* seconds the running child has used
    launched,          \* radii run_generator was called for
    runs,              \* radius, outcome and result of each call that ended
    \* generate_stls.py main (started by the user or as the child)
    gpc,               \* position in main
    args,              \* parsed arguments
    gi,                \* index into args.radius of the loop
    ci,                \* index into CONFIG_KEYS of generate_all_configs
    cfg_success_count, \* success_count of generate_all_configs
    total_count,
    total_success,
    total_generated,
    gexit,             \* exit status of the process
    dirs,              \* directories created
    \* what happened
    jobs,              \* the external-tool jobs attempted, in order
    jobsSucceeded,     \* jobs that ended with exit code 0
    jobsFailed,        \* jobs that ended otherwise
    last,              \* outcome and result of the last generate_stl call
    faults,            \* outcomes off the quick-success path so far
    probe              \* input and results of a table lookup (TableSpec)

batchVars == <<bargs, bpc, ri, success_count, failed_radii, rows, report, bexit,
               cmd, launched, runs>>

genVars == <<gpc, args, gi, ci, cfg_success_count, total_count, total_success,
             total_generated, gexit, dirs>>

jobVars == <<jobs, jobsSucceeded, jobsFailed, last, faults, elapsed>>

vars == <<driver, env, batchVars, genVars, jobVars, probe>>

NoProbe ==
    [pc |-> "off", radius |-> 0, angle |-> None, table |-> None, diverse |-> None]

\* Radii a direct run of generate_stls.py is given.
RadiusChoices == {24, 64}

RECURSIVE SeqsUpTo(_, _)
SeqsUpTo(S, n) ==
    IF n = 0 THEN {<< >>}
    ELSE LET shorter == SeqsUpTo(S, n - 1)
         IN  shorter \cup {Append(q, x) : q \in shorter, x \in S}

DirectArgs ==
    {[default_args EXCEPT !.radius = r, !.config = c, !.diverse = d,
                          !.verbose = v] :
        r \in SeqsUpTo(RadiusChoices, MaxRadiusArgs) \ {<< >>},
        c \in {None} \cup {Some(CONFIG_KEYS[k]) : k \in 1..Len(CONFIG_KEYS)},
        d \in {None, Some(500)},
        v \in BOOLEAN}

\* which is FALSE when subprocess.run(["which", "openscad"]) raises because
\* there is no which executable, openscad is FALSE when the tool is not on
\* the path, and mkdir_ok is FALSE when output_dir.mkdir(parents=True,
\* exist_ok=True) raises, as it does when the path is an existing regular
\* file. stdout is the encoding of sys.stdout, which the child inherits with
\* the environment (and, with -v, with the stream itself).
Envs ==
    [scad_exists : BOOLEAN, which : BOOLEAN, openscad : BOOLEAN,
     mkdir_ok : BOOLEAN, launch : {"ok"}, stdout : StdoutEncodings]

BatchEnvs ==
    [scad_exists : BOOLEAN, which : BOOLEAN, openscad : BOOLEAN,
     mkdir_ok : BOOLEAN, launch : {"ok", "no_python3", "no_script"},
     stdout : StdoutEncodings]

IdleBatch ==
    /\ bargs = [dry_run |-> FALSE, output_dir |-> None, verbose |-> FALSE]
    /\ bpc = "idle"
    /\ ri = 1
    /\ success_count = 0
    /\ failed_radii = << >>
    /\ rows = << >>
    /\ report = None
    /\ bexit = None
    /\ cmd = << >>
    /\ launched = << >>
    /\ runs = << >>

IdleGen ==
    /\ gpc = "idle"
    /\ args = default_args
    /\ gi = 1
    /\ ci = 1
    /\ cfg_success_count = 0
    /\ total_count = 0
    /\ total_success = 0
    /\ total_generated = 0
    /\ gexit = None
    /\ dirs = {}

NoJobs ==
    /\ jobs = << >>
    /\ jobsSucceeded = 0
    /\ jobsFailed = 0
    /\ last = [outcome |-> NoOutcome, result |-> FALSE]
    /\ faults = 0
    /\ elapsed = 0

\* python3 generate_stls.py -r ... started by the user, arguments parsed.
InitGenerate ==
    /\ driver = "generate_stls"
    /\ env \in Envs
    /\ IdleBatch
    /\ gpc = "validate"
    /\ args \in DirectArgs
    /\ gi = 1 /\ ci = 1 /\ cfg_success_count = 0 /\ total_count = 0
    /\ total_success = 0 /\ total_generated = 0 /\ gexit = None /\ dirs = {}
    /\ NoJobs
    /\ probe = NoProbe

\* python3 batch_generate.py started by the user, arguments parsed.
InitBatch ==
    /\ driver = "batch_generate"
    /\ env \in BatchEnvs
    /\ bargs \in [dry_run : BOOLEAN, output_dir : {Some(<<"/", "w", "o", "r", "k">>)},
                  verbose : BOOLEAN]
    /\ bpc = "start"
    /\ ri = 1 /\ success_count = 0 /\ failed_radii = << >> /\ rows = << >>
    /\ report = None /\ bexit = None /\ cmd = << >> /\ launched = << >>
    /\ runs = << >>
    /\ IdleGen
    /\ NoJobs
    /\ probe = NoProbe

Init == InitGenerate \/ InitBatch

(***************************************************************************)
(* generate_stls.py main.                                                  *)
(***************************************************************************)
\* Line 208 in the child: the arguments run_generator passed are parsed.
ParseArgs ==
    /\ gpc = "parse_args"
    /\ args' = parse_args(cmd)
    /\ gi' = 1
    /\ ci' = 1
    /\ gpc' = "validate"
    /\ UNCHANGED <<driver, env, batchVars, jobVars, probe, cfg_success_count,
                   total_count, total_success, total_generated, gexit, dirs>>

\* Lines 210-213: the scene file must exist.
ValidatePaths ==
    /\ gpc = "validate"
    /\ IF ~env.scad_exists
       THEN gpc' = "exited" /\ gexit' = Some(1)
       ELSE gpc' = "check_openscad" /\ UNCHANGED gexit
    /\ UNCHANGED <<driver, env, batchVars, jobVars, probe, args, gi, ci,
                   cfg_success_count, total_count, total_success,
                   total_generated, dirs>>

\* Lines 215-220: check_openscad(), then the counters of main. Without a
\* which executable subprocess.run raises and nothing catches it: the process
\* ends with a traceback and exit status 1. When which does not find the tool
\* its exit code is nonzero and check_openscad calls sys.exit(1).
check_openscad ==
    /\ gpc = "check_openscad"
    /\ IF ~env.which
       THEN /\ gpc' = "raised" /\ gexit' = Some(1)
            /\ UNCHANGED <<total_success, total_generated>>
       ELSE IF ~env.openscad
       THEN /\ gpc' = "exited" /\ gexit' = Some(1)
            /\ UNCHANGED <<total_success, total_generated>>
       ELSE /\ gpc' = "loop" /\ UNCHANGED gexit
            /\ total_success' = 0
            /\ total_generated' = 0
    /\ UNCHANGED <<driver, env, batchVars, jobVars, probe, args, gi, ci,
                   cfg_success_count, total_count, dirs>>

\* The job generate_stl builds for (radius, config) from the parsed arguments.
Job(radius, config) ==
    LET output_file == output_path(args.output_dir, radius, config)
    IN  [radius |-> radius, config |-> config, output_file |-> output_file,
         params |-> scad_param_list(radius, args.angle, config, args.diverse),
         cmd |-> generate_stl_cmd(args.scad_file, output_file, radius,
                                  args.angle, config, args.diverse)]

\* The child is killed by run_generator's timeout while this job runs.
Killed(outcome) ==
    driver = "batch_generate" /\ elapsed + outcome.secs >= RadiusTimeout

\* One call of generate_stl as the environment sees it: the job is attempted
\* and ends in outcome, unless the process is killed first.
Attempt(radius, config, outcome) ==
    /\ IsFault(outcome) => faults < MaxFaults
    /\ faults' = IF IsFault(outcome) THEN faults + 1 ELSE faults
    /\ jobs' = Append(jobs, Job(radius, config))
    /\ IF Killed(outcome)
       THEN /\ elapsed' = RadiusTimeout
            /\ UNCHANGED <<jobsSucceeded, jobsFailed, last>>
       ELSE /\ elapsed' = IF driver = "batch_generate"
                          THEN elapsed + outcome.secs ELSE elapsed
            /\ jobsSucceeded' = IF Succeeded(outcome)
                                THEN jobsSucceeded + 1 ELSE jobsSucceeded
            /\ jobsFailed' = IF Succeeded(outcome)
                             THEN jobsFailed ELSE jobsFailed + 1
            /\ last' = [outcome |-> outcome,
                        result |-> generate_stl(outcome, args.verbose,
                                                env.stdout)]

\* Lines 223-226: with -v the header of a radius is printed at the top of
\* the loop body, outside any try; it holds a degree sign, so the print
\* raises when stdout cannot encode it and the process ends with a traceback.
LoopHeaderRaises == args.verbose /\ ~can_encode(env.stdout, DEGREE_SIGN)

\* Lines 222-241: one iteration of the radius loop with -c given.
GenerateSingle ==
    /\ gpc = "loop"
    /\ gi <= Len(args.radius)
    /\ args.config /= None
    /\ IF LoopHeaderRaises
       THEN /\ gpc' = "raised"
            /\ gexit' = Some(1)
            /\ UNCHANGED <<jobVars, gi, total_success, total_generated>>
       ELSE /\ UNCHANGED gexit
            /\ \E outcome \in JobOutcomes :
                /\ Attempt(args.radius[gi], args.config[1], outcome)
                /\ IF Killed(outcome)
                   THEN /\ gpc' = "killed"
                        /\ UNCHANGED <<gi, total_success, total_generated>>
                   ELSE /\ total_success' =
                               IF generate_stl(outcome, args.verbose, env.stdout)
                               THEN total_success + 1 ELSE total_success
                        /\ total_generated' = total_generated + 1
                        /\ gi' = gi + 1
                        /\ UNCHANGED gpc
    /\ UNCHANGED <<driver, env, batchVars, probe, args, ci, cfg_success_count,
                   total_count, dirs>>

\* Lines 222-226, 242-253 and generate_all_configs: one iteration of the loop
\* over CONFIGURATIONS.keys(). The first one follows the header of the
\* radius, the mkdir and the zeroing of the counters; the last one returns to
\* main, which adds the counts. When the header or the mkdir of line 129
\* raises nothing catches the exception: the process ends with a traceback
\* and exit status 1, no job attempted, no summary.
GenerateAllConfigs ==
    /\ gpc = "loop"
    /\ gi <= Len(args.radius)
    /\ args.config = None
    /\ IF ci = 1 /\ (LoopHeaderRaises \/ ~env.mkdir_ok)
       THEN /\ gpc' = "raised"
            /\ gexit' = Some(1)
            /\ UNCHANGED <<jobVars, gi, ci, cfg_success_count, total_count,
                           total_success, total_generated, dirs>>
       ELSE /\ dirs' = IF ci = 1 THEN dirs \cup {args.output_dir} ELSE dirs
            /\ UNCHANGED gexit
            /\ \E outcome \in JobOutcomes :
                LET before_success == IF ci = 1 THEN 0 ELSE cfg_success_count
                    before_total   == IF ci = 1 THEN 0 ELSE total_count
                    success == IF generate_stl(outcome, args.verbose, env.stdout)
                               THEN before_success + 1 ELSE before_success
                    total   == before_total + 1
                IN  /\ Attempt(args.radius[gi], CONFIG_KEYS[ci], outcome)
                    /\ IF Killed(outcome)
                       THEN /\ gpc' = "killed"
                            /\ UNCHANGED <<gi, ci, cfg_success_count,
                                           total_count, total_success,
                                           total_generated>>
                       ELSE /\ cfg_success_count' = success
                            /\ total_count' = total
                            /\ UNCHANGED gpc
                            /\ IF ci = Len(CONFIG_KEYS)
                               THEN /\ total_success' = total_success + success
                                    /\ total_generated' = total_generated + total
                                    /\ gi' = gi + 1
                                    /\ ci' = 1
                               ELSE /\ ci' = ci + 1
                                    /\ UNCHANGED <<gi, total_success,
                                                   total_generated>>
    /\ UNCHANGED <<driver, env, batchVars, probe, args>>

\* exit_status that reports success whatever the counts are.
exit_status_always_zero(success, generated) == Some(0)

\* Lines 261-262: sys.exit(1) if total_success < total_generated, else the
\* end of main.
exit_status(success, generated) ==
    IF success < generated THEN Some(1) ELSE Some(0)

\* Lines 255-262: the summary and the exit status.
GenerateSummary ==
    /\ gpc = "loop"
    /\ gi > Len(args.radius)
    /\ gpc' = "exited"
    /\ gexit' = exit_status(total_success, total_generated)
    /\ UNCHANGED <<driver, env, batchVars, jobVars, probe, args, gi, ci,
                   cfg_success_count, total_count, total_success,
                   total_generated, dirs>>

(***************************************************************************)
(* batch_generate.py main.                                                 *)
(***************************************************************************)
\* Lines 139-157: the dry-run header, or the batch header and the counters.
BatchStart ==
    /\ bpc = "start"
    /\ bpc' = IF bargs.dry_run THEN "dry_run" ELSE "loop"
    /\ success_count' = 0
    /\ failed_radii' = << >>
    /\ UNCHANGED <<driver, env, genVars, jobVars, probe, bargs, ri, rows,
                   report, bexit, cmd, launched, runs>>

\* Lines 143-147: one row of the dry-run table.
DryRunRow ==
    /\ bpc = "dry_run"
    /\ ri <= Len(RADII)
    /\ LET radius  == RADII[ri]
           angle   == ANGLE_MAP[radius]
           diverse == DIVERSE_MAP[radius]
       IN  rows' = Append(rows, dry_run_row(radius, angle, diverse))
    /\ ri' = ri + 1
    /\ UNCHANGED <<driver, env, genVars, jobVars, probe, bargs, bpc,
                   success_count, failed_radii, report, bexit, cmd, launched,
                   runs>>

\* Lines 148-149: the total line, and main returns. The line holds a
\* multiplication sign: when stdout cannot encode it the print raises and the
\* process ends with a traceback and exit status 1.
DryRunReturn ==
    /\ bpc = "dry_run"
    /\ ri > Len(RADII)
    /\ IF can_encode(env.stdout, MULTIPLICATION_SIGN)
       THEN bpc' = "done" /\ bexit' = Some(0)
       ELSE bpc' = "raised" /\ bexit' = Some(1)
    /\ UNCHANGED <<driver, env, genVars, jobVars, probe, bargs, ri, rows,
                   success_count, failed_radii, report, cmd, launched, runs>>

\* Lines 87-102 and 163-166: the end of one run_generator call and its
\* tally. When run_generator raises, nothing in main catches the exception:
\* nothing is tallied and the process ends with a traceback and exit
\* status 1.
Tally(outcome) ==
    LET result == run_generator(outcome, bargs.verbose, env.stdout)
    IN  /\ runs' = Append(runs, [radius |-> RADII[ri], kind |-> outcome.kind,
                                 returncode |-> outcome.returncode,
                                 result |-> result])
        /\ IF result = "True"
           THEN /\ success_count' = success_count + 1
                /\ ri' = ri + 1
                /\ bpc' = "loop"
                /\ UNCHANGED <<failed_radii, bexit>>
           ELSE IF result = "False"
           THEN /\ failed_radii' = Append(failed_radii, RADII[ri])
                /\ ri' = ri + 1
                /\ bpc' = "loop"
                /\ UNCHANGED <<success_count, bexit>>
           ELSE /\ bpc' = "raised"
                /\ bexit' = Some(1)
                /\ UNCHANGED <<success_count, failed_radii, ri>>

\* Lines 159-161 and run_generator up to subprocess.run: the child is
\* started. With -v the header of lines 73-75 is printed first, outside the
\* try; it holds a degree sign, so when stdout cannot encode it run_generator
\* raises before any child is started and main ends with a traceback.
\* Without python3 subprocess.run raises at once; without the script the
\* interpreter exits with status 2.
RunGeneratorLaunch ==
    /\ bpc = "loop"
    /\ ri <= Len(RADII)
    /\ LET radius  == RADII[ri]
           angle   == ANGLE_MAP[radius]
           diverse == DIVERSE_MAP[radius]
           argv    == run_generator_cmd(radius, angle, diverse,
                                        bargs.output_dir, bargs.verbose)
       IN  /\ cmd' = argv
           /\ launched' = Append(launched, radius)
           /\ elapsed' = 0
           /\ IF bargs.verbose /\ ~can_encode(env.stdout, DEGREE_SIGN)
              THEN /\ bpc' = "raised"
                   /\ bexit' = Some(1)
                   /\ UNCHANGED <<ri, success_count, failed_radii, runs,
                                  genVars>>
              ELSE IF env.launch = "no_python3"
              THEN /\ Tally([kind |-> "exception", returncode |-> -1, secs |-> 0])
                   /\ UNCHANGED genVars
              ELSE /\ bpc' = "wait"
                   /\ IF env.launch = "no_script"
                      THEN gpc' = "exited" /\ gexit' = Some(2)
                      ELSE gpc' = "parse_args" /\ gexit' = None
                   /\ UNCHANGED <<ri, success_count, failed_radii, runs, bexit,
                                  args, gi, ci, cfg_success_count, total_count,
                                  total_success, total_generated, dirs>>
    /\ UNCHANGED <<driver, env, probe, bargs, rows, report, jobs,
                   jobsSucceeded, jobsFailed, last, faults>>

\* Lines 87-102 of run_generator and 163-166 of main: the child has exited,
\* by itself or on an uncaught exception, or was killed at the timeout.
RunGeneratorReturn ==
    /\ bpc = "wait"
    /\ gpc \in {"exited", "raised", "killed"}
    /\ Tally(IF gpc = "killed"
             THEN [kind |-> "timeout", returncode |-> -1, secs |-> RadiusTimeout]
             ELSE [kind |-> "exit", returncode |-> gexit[1], secs |-> elapsed])
    /\ gpc' = "idle"
    /\ UNCHANGED <<driver, env, probe, jobVars, bargs, rows, report,
                   cmd, launched, args, gi, ci, cfg_success_count, total_count,
                   total_success, total_generated, gexit, dirs>>

\* Lines 168-183: the summary and the exit status. The closing line of a
\* run without failed radii holds a check mark: when stdout cannot encode it
\* the print raises after the summary and the exit status is 1.
BatchSummary ==
    /\ bpc = "loop"
    /\ ri > Len(RADII)
    /\ LET total_files      == Len(RADII) * 4
           successful_files == success_count * 4
       IN  report' = Some([radii_processed |-> success_count,
                           radii |-> Len(RADII),
                           successful_files |-> successful_files,
                           total_files |-> total_files,
                           failed_radii |-> failed_radii])
    /\ IF failed_radii /= << >>
       THEN bpc' = "done" /\ bexit' = Some(1)
       ELSE IF can_encode(env.stdout, CHECK_MARK)
       THEN bpc' = "done" /\ bexit' = Some(0)
       ELSE bpc' = "raised" /\ bexit' = Some(1)
    /\ UNCHANGED <<driver, env, genVars, jobVars, probe, bargs, ri, rows,
                   success_count, failed_radii, cmd, launched, runs>>

Next ==
    \/ ParseArgs
    \/ ValidatePaths
    \/ check_openscad
    \/ GenerateSingle
    \/ GenerateAllConfigs
    \/ GenerateSummary
    \/ BatchStart
    \/ DryRunRow
    \/ DryRunReturn
    \/ RunGeneratorLaunch
    \/ RunGeneratorReturn
    \/ BatchSummary

Spec == Init /\ [][Next]_vars

\* The interpreter runs the script to its end: a step that can be taken is
\* taken.
FairSpec == Spec /\ WF_vars(Next)

(***************************************************************************)
(* The table functions on their own: a radius is drawn, the angle is       *)
(* looked up and the diverse value calculated.                             *)
(***************************************************************************)
\* ANGLE_MAP[radius], DIVERSE_MAP[radius] (None for a KeyError) and
\* calculate_diverse(radius).
Lookup ==
    /\ probe.pc = "input"
    /\ probe' = [pc |-> "done",
                 radius |-> probe.radius,
                 angle |-> IF probe.radius \in DOMAIN ANGLE_MAP
                           THEN Some(ANGLE_MAP[probe.radius]) ELSE None,
                 table |-> IF probe.radius \in DOMAIN DIVERSE_MAP
                           THEN Some(DIVERSE_MAP[probe.radius]) ELSE None,
                 diverse |-> Some(calculate_diverse(probe.radius))]
    /\ UNCHANGED <<driver, env, batchVars, genVars, jobVars>>

TableInit ==
    /\ driver = "table"
    /\ env = [scad_exists |-> TRUE, which |-> TRUE, openscad |-> TRUE,
              mkdir_ok |-> TRUE, launch |-> "ok", stdout |-> "utf-8"]
    /\ IdleBatch
    /\ IdleGen
    /\ NoJobs
    /\ probe \in {[pc |-> "input", radius |-> r, angle |-> None,
                   table |-> None, diverse |-> None] : r \in 0..MaxProbeRadius}

TableNext == Lookup

TableSpec == TableInit /\ [][TableNext]_vars

(***************************************************************************)
(* Properties of the parameter table (TableSpec).                          *)
(***************************************************************************)
\* C6: for every radius r of RADII, DIVERSE_MAP[r] is calculate_diverse(r),
\* which is min(13*(r-64)^2/16 + 500, 1800): r-64 is a multiple of 8, so the
\* quadratic has no fractional part and int() truncates nothing.
C6_DiverseFormula ==
    (probe.pc = "done" /\ probe.radius \in RadiiSet) =>
        LET x == probe.radius - 64
        IN  /\ probe.table = probe.diverse
            /\ x % 8 = 0
            /\ (13 * x * x) % 16 = 0
            /\ (8125 * x * x) % 10000 = 0
            /\ probe.diverse = Some(Min(((13 * x * x) \div 16) + 500, 1800))

C6_Witness ==
    probe.pc = "done" /\ probe.radius = 32 /\ probe.diverse = Some(1332)

\* C7: ANGLE_MAP has exactly the 13 radii 24, 32, ..., 120 as keys; a lookup
\* succeeds for these and no other radius; the angle is 22.5 up to 32, 18 up
\* to 56, 15 up to 88 and 11.25 from 96 on, so it never grows with the radius.
C7_AngleTable ==
    probe.pc = "done" =>
        /\ Len(RADII) = 13
        /\ \A i \in 1..Len(RADII) : RADII[i] = 24 + 8 * (i - 1)
        /\ DOMAIN ANGLE_MAP = RadiiSet
        /\ (probe.angle /= None) <=> (probe.radius \in RadiiSet)
        /\ probe.radius \in RadiiSet =>
            LET r == probe.radius
                h == Hundredths(probe.angle[1])
            IN  /\ h \in {2250, 1800, 1500, 1125}
                /\ h = (IF r <= 32 THEN 2250 ELSE IF r <= 56 THEN 1800
                        ELSE IF r <= 88 THEN 1500 ELSE 1125)
                /\ \A r2 \in RadiiSet :
                       r2 > r => Hundredths(ANGLE_MAP[r2]) <= h

C7_Witness ==
    probe.pc = "done" /\ probe.radius = 96 /\ probe.angle = Some(PyFloat(1125))

\* C8: over RADII the diverse value lies in 500..1800, is 500 only at radius
\* 64, is 1800 at radius 24 and from 104 on, falls strictly from 24 to 64 and
\* never falls from 64 to 120.
C8_VShape ==
    (probe.pc = "done" /\ probe.radius \in RadiiSet) =>
        LET r == probe.radius
            d == probe.diverse[1]
        IN  /\ d >= 500 /\ d <= 1800
            /\ (d = 500) <=> (r = 64)
            /\ (r = 24 \/ r >= 104) => d = 1800
            /\ \A r2 \in RadiiSet :
                   /\ (r < r2 /\ r2 <= 64) => DIVERSE_MAP[r2] < d
                   /\ (64 <= r /\ r < r2) => DIVERSE_MAP[r2] >= d

C8_Witness ==
    probe.pc = "done" /\ probe.radius = 112 /\ probe.diverse = Some(1800)

(***************************************************************************)
(* Properties of the drivers (Spec, FairSpec).                             *)
(***************************************************************************)
\* The checks of generate_stls.py pass: the scene file exists and which runs
\* and finds the tool.
PreflightOK == env.scad_exists /\ env.which /\ env.openscad

\* The scene file does not exist or the tool is not on the path.
SceneOrToolMissing == ~env.scad_exists \/ ~env.openscad

\* The checks pass and, where generate_all_configs creates the output
\* directory, the mkdir works.
ChecksAndDirOK == PreflightOK /\ (args.config /= None \/ env.mkdir_ok)

\* The process generate_stls.py gets as far as its jobs: the checks pass, the
\* directory can be created and the header of a radius can be printed.
JobsCanStart == ChecksAndDirOK /\ ~LoopHeaderRaises

\* generate_stl can print its success message.
ResultsPrint == ~args.verbose \/ can_encode(env.stdout, CHECK_MARK)

\* No print of run_generator raises: with -v the header of the radius can be
\* printed, without -v the marks can.
MarksPrint ==
    IF bargs.verbose THEN can_encode(env.stdout, DEGREE_SIGN)
    ELSE can_encode(env.stdout, CHECK_MARK) /\ can_encode(env.stdout, BALLOT_X)

\* A direct run of generate_stls.py has ended, by sys.exit, at the end of main
\* or on an uncaught exception.
GenFinished == driver = "generate_stls" /\ gpc \in {"exited", "raised"}

\* A direct run of generate_stls.py has printed its summary and ended.
GenSummarised == driver = "generate_stls" /\ gpc = "exited" /\ PreflightOK

BatchRun == driver = "batch_generate" /\ ~bargs.dry_run

BatchFinished == BatchRun /\ bpc = "done"

\* A batch run has ended, after its summary or on an uncaught exception.
BatchEnded == BatchRun /\ bpc \in {"done", "raised"}

\* The interpreter and generate_stls.py are where run_generator looks for them.
Launchable == env.launch = "ok"

\* The (radius, configuration) pairs of the jobs attempted, in order.
JobKeys == [k \in 1..Len(jobs) |-> <<jobs[k].radius, jobs[k].config>>]

\* The jobs a run over radii owes: one per radius with -c, else one per
\* radius and configuration, radius by radius.
ExpectedKeys(radii, config) ==
    IF config /= None
    THEN [k \in 1..Len(radii) |-> <<radii[k], config[1]>>]
    ELSE [k \in 1..(Len(radii) * Len(CONFIG_KEYS)) |->
             <<radii[((k - 1) \div Len(CONFIG_KEYS)) + 1],
               CONFIG_KEYS[((k - 1) % Len(CONFIG_KEYS)) + 1]>>]

RunOk(run) == run.kind = "exit" /\ run.returncode = 0

RunNotOk(run) == ~RunOk(run)

RadiiOf(rs) == [k \in 1..Len(rs) |-> rs[k].radius]

\* Jobs of a generate_stls.py process counted but not yet added to the totals.
PartSuccess == IF ci > 1 THEN cfg_success_count ELSE 0

PartTotal == IF ci > 1 THEN total_count ELSE 0

\* A job has been attempted.
JobAttempted == jobs /= << >>

\* What C1 says of a state in which a job has been attempted: a direct run
\* has, at its end, printed its summary, attempted its jobs once each in list
\* order and counted every failed one; a batch run has called run_generator
\* for the radii of RADII in order, once each, has every radius whose call
\* did not end in exit code 0 in failed_radii and, at its end, has gone
\* through all 13 and printed its summary.
C1_Stated ==
    /\ (GenFinished /\ JobAttempted) =>
           /\ GenSummarised
           /\ JobKeys = ExpectedKeys(args.radius, args.config)
           /\ total_generated = Len(jobs)
           /\ total_generated - total_success >= jobsFailed
    /\ (BatchRun /\ JobAttempted) =>
           /\ RadiiOf(runs) = SubSeq(RADII, 1, Len(runs))
           /\ launched = SubSeq(RADII, 1, Len(launched))
           /\ bpc \in {"loop", "done", "raised"} =>
                  failed_radii = RadiiOf(SelectSeq(runs, RunNotOk))
    /\ (BatchEnded /\ JobAttempted) =>
           /\ launched = RADII
           /\ RadiiOf(runs) = RADII
           /\ report /= None

\* C1 as stated: a failed job neither aborts the batch nor is retried.
\* Whatever the jobs end in, generate_stls.py attempts every job once in list
\* order, batch_generate.py attempts every radius of RADII once in list
\* order, each failure is recorded, and the run, once it has attempted a job,
\* always reaches its summary.
C1_Original ==
    /\ []C1_Stated
    /\ (JobAttempted /\ (\/ driver = "generate_stls" /\ gpc = "loop"
                         \/ BatchRun /\ bpc = "loop"))
       ~> (\/ GenSummarised
           \/ BatchRun /\ bpc = "done" /\ report /= None)

C3_Original ==
    Launchable =>
    /\ last.outcome /= NoOutcome =>
           (last.result <=> Succeeded(last.outcome))
    /\ \A k \in 1..Len(runs) :
           /\ runs[k].result \in {"True", "False"}
           /\ (runs[k].result = "True") <=> RunOk(runs[k])
    /\ driver = "generate_stls" =>
           /\ total_success + PartSuccess = jobsSucceeded
           /\ (total_generated + PartTotal) - (total_success + PartSuccess)
                  = jobsFailed
           /\ total_generated + PartTotal = Len(jobs)
    /\ (BatchRun /\ bpc \in {"loop", "done", "raised"}) =>
           /\ success_count = Len(SelectSeq(runs, RunOk))
           /\ Len(failed_radii) = Len(SelectSeq(runs, RunNotOk))

\* C4 as stated: with the scene file or the tool missing nothing is rendered,
\* no directory is created, the exit status is 1 and, in batch_generate.py, no
\* further radius is iterated.
C4_Original ==
    (SceneOrToolMissing /\ Launchable /\ ~bargs.dry_run) =>
        /\ jobs = << >>
        /\ dirs = {}
        /\ gpc /= "loop"
        /\ GenFinished => gexit = Some(1)
        /\ BatchFinished => bexit = Some(1)
        /\ Len(launched) <= 1

\* C5 as stated: with --dry-run batch_generate.py starts no subprocess,
\* prints one row per radius of RADII with that radius's angle and diverse
\* value, 13 rows in all, and ends without a failure exit status.
C5_Original ==
    (driver = "batch_generate" /\ bargs.dry_run) =>
        /\ launched = << >> /\ cmd = << >> /\ runs = << >>
        /\ jobs = << >> /\ gpc = "idle" /\ dirs = {}
        /\ bexit \in {None, Some(0)}
        /\ Len(rows) <= 13
        /\ \A k \in 1..Len(rows) :
               rows[k] = "R" \o Join(ljust(str_int(RADII[k]), 9)) \o " "
                         \o Join(ljust(format_2f(ANGLE_MAP[RADII[k]]), 10)) \o " "
                         \o Join(ljust(str_int(DIVERSE_MAP[RADII[k]]), 10)) \o " "
                         \o "ballast_and_buddy, ballast, track_ballast_and_buddy, track_and_ballast"
        /\ bpc \in {"done", "raised"} =>
               /\ bexit = Some(0)
               /\ Len(rows) = 13
               /\ rows[1] = "R24        22.50      1800       ballast_and_buddy, ballast, track_ballast_and_buddy, track_and_ballast"
               /\ rows[3] = "R40        18.00      968        ballast_and_buddy, ballast, track_ballast_and_buddy, track_and_ballast"
               /\ rows[10] = "R96        11.25      1332       ballast_and_buddy, ballast, track_ballast_and_buddy, track_and_ballast"

\* The parameters the claim gives the job of radius r and configuration c of
\* a batch run, the angle as the float the child holds.
BatchParams(r, c) ==
    << "-D 'Radius=" \o Join(str_int(r)) \o "'",
       "-D 'SegAng=" \o Join(repr_float(Hundredths(ANGLE_MAP[r]))) \o "'",
       "-D 'generate_track=" \o CONFIGURATIONS[c].generate_track \o "'",
       "-D 'generate_ballast=" \o CONFIGURATIONS[c].generate_ballast \o "'",
       "-D 'generate_ballast_buddy=" \o CONFIGURATIONS[c].generate_ballast_buddy \o "'",
       "-D 'diverse=" \o Join(str_int(DIVERSE_MAP[r])) \o "'" >>

\* Every job attempted so far in a batch run is the job of its radius and
\* configuration, and no two of them write the same file.
BatchJobsWellFormed ==
    /\ \A k \in 1..Len(jobs) :
           LET j == jobs[k]
           IN  /\ j.radius \in RadiiSet
               /\ j.config \in DOMAIN CONFIGURATIONS
               /\ j.params = BatchParams(j.radius, j.config)
               /\ j.output_file =
                      "/work/r" \o Join(str_int(j.radius)) \o "_" \o j.config \o ".stl"
               /\ (j.radius = 40 /\ j.config = "ballast") =>
                      j.cmd = "openscad -D 'Radius=40' -D 'SegAng=18.0' -D 'generate_track=false' -D 'generate_ballast=true' -D 'generate_ballast_buddy=false' -D 'diverse=968' -o '/work/r40_ballast.stl' '/work/curves.scad'"
    /\ \A k1, k2 \in 1..Len(jobs) :
           k1 /= k2 => jobs[k1].output_file /= jobs[k2].output_file

\* A direct run passes diverse to the tool iff -d was given.
DiverseIffGiven ==
    driver = "generate_stls" =>
        \A k \in 1..Len(jobs) :
            /\ (args.diverse = None) <=> (Len(jobs[k].params) = 5)
            /\ (args.diverse /= None) =>
                   (Len(jobs[k].params) = 6 /\
                    jobs[k].params[6] =
                        "-D 'diverse=" \o Join(str_int(args.diverse[1])) \o "'")

\* C9 as stated: a batch run attempts exactly one job for every radius and
\* configuration, with the parameters and the path of that pair; with -c a
\* run of generate_stls.py attempts one job per radius; diverse is passed iff
\* -d was given.
C9_Original ==
    /\ (BatchFinished /\ Launchable) =>
           (JobKeys = ExpectedKeys(RADII, None) /\ BatchJobsWellFormed)
    /\ (GenFinished /\ JobsCanStart /\ args.config /= None) =>
           JobKeys = ExpectedKeys(args.radius, args.config)
    /\ DiverseIffGiven

\* The place of a job's (radius, configuration) pair in the list of the 52
\* pairs of a batch run.
KeyPosition(j) ==
    LET r == CHOOSE k \in 1..Len(RADII) : RADII[k] = j.radius
        c == CHOOSE k \in 1..Len(CONFIG_KEYS) : CONFIG_KEYS[k] = j.config
    IN  (r - 1) * Len(CONFIG_KEYS) + c

\* Every child of the batch run so far passed its checks, created the output
\* directory and ended by itself.
ChildrenCompleted ==
    /\ PreflightOK /\ env.mkdir_ok /\ Launchable
    /\ \A k \in 1..Len(runs) : runs[k].kind = "exit"

\* C9, amended: the jobs a batch run attempts are jobs of distinct (radius,
\* configuration) pairs in list order, each with the parameters and the path
\* of its pair, no two with the same path; the run attempts all 52 of them
\* when every child passes its checks, can create the output directory and
\* ends before the 600 s timeout, and stdout can encode what run_generator
\* prints. With -c a run of generate_stls.py that gets as far as its jobs
\* attempts one job per radius; diverse is passed iff -d was given.
C9_Jobs ==
    /\ (BatchRun /\ bpc \in {"loop", "done", "raised"}) =>
           /\ BatchJobsWellFormed
           /\ \A k \in 1..(Len(jobs) - 1) :
                  KeyPosition(jobs[k]) < KeyPosition(jobs[k + 1])
    /\ (BatchEnded /\ ChildrenCompleted /\ MarksPrint) =>
           /\ BatchFinished
           /\ JobKeys = ExpectedKeys(RADII, None)
    /\ (GenFinished /\ JobsCanStart /\ args.config /= None) =>
           JobKeys = ExpectedKeys(args.radius, args.config)
    /\ DiverseIffGiven

C9_Witness ==
    BatchFinished /\ Len(jobs) = 52 /\ jobsFailed = 2 /\ jobs[52].radius = 120

\* C10 as stated: the number of files the summary of batch_generate.py
\* reports as generated is the number of jobs that succeeded, and the radii
\* processed and the failed radii add up to 13.
C10_Original ==
    (BatchFinished /\ Launchable /\ report /= None) =>
        /\ report[1].successful_files = jobsSucceeded
        /\ report[1].radii_processed + Len(report[1].failed_radii) = 13

====
